---- MODULE Spec2Model ----
(***************************************************************************)
(* A model of hxcvtr-file-cache: FullCache, SwapCache (page frames, page   *)
(* map, LRU list, mutex), AutoCache (variant selection) and the derived    *)
(* Cache::read, over a byte source with a read position.                   *)
(*                                                                         *)
(* Offsets are 0-based as in the source; TLA+ sequences are 1-based, so    *)
(* byte i of a buffer is element i+1 of its sequence.                      *)
(***************************************************************************)
EXTENDS Integers, Sequences, FiniteSets, TLC

(* ------------------------------ bounds -------------------------------- *)

\* Longest source, in bytes.
MaxLen == 3
\* Largest page size and frame count given to SwapCache::new.
MaxPage == 2
MaxFrames == 3
\* Largest memory budget given to AutoCache::new.
MaxMem == 4
\* Largest value of a range bound is srcLen + RangeSlack.
RangeSlack == 1

(* ----------------------------- constants ------------------------------ *)

\* swap_cache.rs: const NULL: usize = std::usize::MAX.  Any value that is no
\* frame index serves; -1 stands for it here.
NULL == -1

\* No thread holds the mutex.
NoThread == 0

(* ------------------------------ helpers ------------------------------- *)

Min(a, b) == IF a <= b THEN a ELSE b
Max(a, b) == IF a >= b THEN a ELSE b

\* Rust's slice data[a..b] (0-based, half open), for 0 <= a <= b <= len.
Slice(s, a, b) == SubSeq(s, a + 1, b)

Zeros(n) == [i \in 1..n |-> 0]

\* The element of a one-element set.  { e(x) : x \in {v} } names the value v
\* once, however often e uses it.
The(S) == CHOOSE x \in S : TRUE

VARIABLES
    srcLen,     \* L: the source's length in bytes
    srcPos,     \* the source's read position (std::io::Seek)
    kind,       \* "none" | "full" | "swap" | "error" | "consumed" | "dropped"
    auto,       \* the cache is wrapped in an AutoCache
    newErr,     \* the constructor's / into_inner's result
    data,       \* FullCache.data
    sz,         \* SwapCache.sz
    cache_sz,   \* SwapCache.cache_sz
    page_sz,    \* SwapCacheImpl.page_sz
    frames,     \* SwapCacheImpl.frames: 0..N-1 -> Frame
    map,        \* SwapCacheImpl.map: page -> frame index
    front,      \* SwapCacheImpl.front
    back,       \* SwapCacheImpl.back
    lockOwner,  \* the thread holding SwapCache.swap's guard, or NoThread
    poisoned,   \* the mutex's poison flag
    thr,        \* per thread: the traverse_chunks / read call in progress
    shadow,     \* reference LRU order of pages, least recent first
    ioFailed,   \* a source operation has failed since construction
    reader,     \* the CacheReader over the cache: pos and its last call
    outer       \* a second SwapCache, whose source is the CacheReader

vars == <<srcLen, srcPos, kind, auto, newErr, data, sz, cache_sz, page_sz,
          frames, map, front, back, lockOwner, poisoned, thr, shadow, ioFailed,
          reader, outer>>

swapVars == <<sz, cache_sz, page_sz, frames, map, front, back>>

(* ------------------------------ source -------------------------------- *)

\* The source's bytes: byte i (0-based) is i + 1, so every byte differs from
\* every other and from the zero fill of a fresh frame buffer.
SourceByte(i) == i + 1
Source(len) == [i \in 1..len |-> SourceByte(i - 1)]

\* std::io::Read::read on a file-like source at position pos into buf: the
\* number of bytes read, and buf afterwards (bytes past the count are kept).
ReadCount(len, pos, buf) == Min(Len(buf), Max(0, len - pos))

\* A read that leaves the buffer only as long as the bytes read.
ReadIntoTruncating(len, pos, buf) ==
    [i \in 1..ReadCount(len, pos, buf) |-> SourceByte(pos + i - 1)]

ReadInto(len, pos, buf) ==
    [i \in 1..Len(buf) |->
        IF i <= ReadCount(len, pos, buf) THEN SourceByte(pos + i - 1) ELSE buf[i]]

(* --------------------------- thread records --------------------------- *)

\* pc: "idle", "lock" (in lock()), "loop" (about to call get_chunk), "visit"
\* (holding a chunk, about to call the visitor), "done" (returned or unwound).
\* start, end, pos, chunk/fidx are the call's locals; op and buflen say whether
\* the visitor is a caller's closure or Cache::read's buffer write.
\* lo, hi (the interval the caller asked for), log (the chunks the visitor was
\* called with, each with the offset it stands for), vis (what the visitor
\* last did) and ret (how the call ended) record the call for the properties:
\* ret is "ok", "io", "poison", "visitor_err" (Err from the visitor),
\* "visitor_panic", "unreachable" (load_page's unreachable!()) or "slice_panic"
\* (a slice index out of order).
IdleThread ==
    [pc |-> "idle", op |-> "none", start |-> 0, end |-> 0, pos |-> 0,
     buflen |-> 0, chunk |-> <<>>, fidx |-> NULL,
     lo |-> 0, hi |-> 0, log |-> <<>>, vis |-> "none", ret |-> "none"]

Threads == DOMAIN thr

(* ------------------------- CacheReader, stacking ---------------------- *)

\* CacheReader::new: pos is 0.  call, from, off, was, res and val record the
\* last read or seek for the properties: the method, the SeekFrom variant and
\* offset (or the buffer length of a read), pos before the call, how the call
\* ended ("ok", "err", "panic") and the value it returned.
NewReader ==
    [pos |-> 0, call |-> "none", from |-> "none", off |-> 0, was |-> 0,
     res |-> "none", val |-> 0]

\* No outer cache has been built over the reader.
NoOuter ==
    [built |-> FALSE, page_sz |-> 0, sz |-> 0, cache_sz |-> 0,
     frames |-> <<>>, map |-> <<>>, front |-> 0, back |-> 0,
     poisoned |-> FALSE,
     rd_off |-> 0, rd_len |-> 0, rd_res |-> "none", rd_bytes |-> <<>>]

(* ---------------------------- construction ---------------------------- *)

\* The state before any cache is built over a source of length len.
InitWith(lens, nthreads) ==
    /\ srcLen \in lens
    /\ srcPos \in {0, srcLen}
    /\ kind = "none"
    /\ auto = FALSE
    /\ newErr = "none"
    /\ data = <<>>
    /\ sz = 0
    /\ cache_sz = 0
    /\ page_sz = 0
    /\ frames = <<>>
    /\ map = <<>>
    /\ front = 0
    /\ back = 0
    /\ lockOwner = NoThread
    /\ poisoned = FALSE
    /\ thr = [t \in 1..nthreads |-> IdleThread]
    /\ shadow = <<>>
    /\ ioFailed = FALSE
    /\ reader = NewReader
    /\ outer = NoOuter

Init == InitWith(0..MaxLen, 1)

\* A constructor that failed: no cache exists.
ConstructFailed(err) ==
    /\ kind' = "error"
    /\ newErr' = err
    /\ UNCHANGED <<srcLen, auto, data, swapVars, lockOwner, poisoned, thr,
                   shadow, ioFailed, reader, outer>>

\* Where the source fails during a constructor call: nowhere, or at the at-th
\* seek or the at-th read the source sees in that call, for a call that makes
\* the given numbers of seeks and reads when nothing fails.
NoFail == [op |-> "none", at |-> 0]
NewFailures(seeks, reads) ==
    {NoFail} \cup {[op |-> "seek", at |-> k] : k \in 1..seeks}
             \cup {[op |-> "read", at |-> k] : k \in 1..reads}

\* Seeks the source has seen when FullCache::new or SwapCache::new is entered,
\* and where it then stands: AutoCache::new has sought to the end before it
\* calls either.
SeeksBefore(viaAuto) == IF viaAuto THEN 1 ELSE 0
PosBefore(viaAuto) == IF viaAuto THEN srcLen ELSE srcPos

\* read_to_end on a source at 0 whose bytes fit the first buffer it reads
\* into: the first read takes all len bytes, a second read, made when the
\* first returned any, returns 0 and ends it.  The number of reads, and the
\* position the source is at when the k-th is made.
ReadToEndReads(len) == IF len = 0 THEN 1 ELSE 2
ReadToEndPos(len, k) == IF k = 1 THEN 0 ELSE len

\* FullCache::new makes one seek and read_to_end's reads.
FullFailures == NewFailures(1, ReadToEndReads(srcLen))

\* FullCache::new: seek to 0, read_to_end.
FullCacheNew(io, viaAuto) ==
    IF io.op = "seek" /\ io.at = SeeksBefore(viaAuto) + 1
    THEN /\ ConstructFailed("io")
         /\ srcPos' = PosBefore(viaAuto)
    ELSE IF io.op = "read" /\ io.at <= ReadToEndReads(srcLen)
    THEN /\ ConstructFailed("io")
         /\ srcPos' = ReadToEndPos(srcLen, io.at)
    ELSE /\ kind' = "full"
         /\ auto' = viaAuto
         /\ newErr' = "ok"
         /\ data' = Source(srcLen)
         /\ srcPos' = srcLen
         /\ UNCHANGED <<srcLen, swapVars, lockOwner, poisoned, thr, shadow, ioFailed, reader, outer>>

\* The frame SwapCacheImpl::new pushes for index i of frame_count frames.
NewFrame(i, frame_count, page_size, len) ==
    LET last == frame_count - 1
        buf  == ReadInto(len, i * page_size, Zeros(page_size))
    IN  IF frame_count = 1 THEN [data |-> buf, page |-> 0, next |-> NULL, prev |-> NULL]
        ELSE IF i = 0      THEN [data |-> buf, page |-> 0, next |-> NULL, prev |-> 1]
        ELSE IF i = last   THEN [data |-> buf, page |-> i, next |-> last, prev |-> NULL]
        ELSE                    [data |-> buf, page |-> i, next |-> i - 1, prev |-> i + 1]

\* The reference LRU order after construction: page N-1 least recent, page 0
\* most recent.
InitialShadow(frame_count) == [i \in 1..frame_count |-> frame_count - i]

\* SwapCache::new with SwapCacheImpl::new: seek to the end for the length, check
\* the parameters, seek to 0 and fill the frames by one read each from where
\* the last one ended.  A failing seek leaves the source where it was; the
\* k-th read fails with the source after the k-1 pages read before it.
SwapCacheNew(page_size, frame_count, io, viaAuto) ==
    IF io.op = "seek" /\ io.at = SeeksBefore(viaAuto) + 1
    THEN ConstructFailed("io") /\ srcPos' = PosBefore(viaAuto)
    ELSE IF page_size = 0 \/ frame_count = 0
    THEN ConstructFailed("zero_cache") /\ srcPos' = srcLen
    ELSE IF io.op = "seek" /\ io.at = SeeksBefore(viaAuto) + 2
    THEN ConstructFailed("io") /\ srcPos' = srcLen
    ELSE IF io.op = "read" /\ io.at <= frame_count
    THEN ConstructFailed("io") /\ srcPos' = Min(srcLen, (io.at - 1) * page_size)
    ELSE /\ kind' = "swap"
         /\ auto' = viaAuto
         /\ newErr' = "ok"
         /\ sz' = srcLen
         /\ cache_sz' = page_size * frame_count
         /\ page_sz' = page_size
         /\ frames' = [i \in 0..(frame_count - 1) |->
                          NewFrame(i, frame_count, page_size, srcLen)]
         /\ map' = [p \in 0..(frame_count - 1) |-> p]
         /\ front' = frame_count - 1
         /\ back' = 0
         /\ srcPos' = Min(srcLen, page_size * frame_count)
         /\ shadow' = InitialShadow(frame_count)
         /\ UNCHANGED <<srcLen, data, lockOwner, poisoned, thr, ioFailed, reader, outer>>

\* SwapCache::new makes one seek before it tests its parameters; with both
\* positive, SwapCacheImpl::new makes another and one read per frame.
SwapFailures(page_size, frame_count) ==
    IF page_size = 0 \/ frame_count = 0 THEN NewFailures(1, 0)
    ELSE NewFailures(2, frame_count)

\* What the source does in one load_page: work, or fail at the seek or the read.
IOOutcomes == {"ok", "seek_err", "read_err"}

NewFull ==
    /\ kind = "none"
    /\ \E io \in FullFailures : FullCacheNew(io, FALSE)

NewSwap ==
    /\ kind = "none"
    /\ \E p \in 0..MaxPage, n \in 0..MaxFrames :
          \E io \in SwapFailures(p, n) : SwapCacheNew(p, n, io, FALSE)

(* ------------------------------ ranges -------------------------------- *)

\* A RangeBounds<u64> value: each bound is Included(v), Excluded(v) or Unbounded.
Bounds(maxv) ==
    {[k |-> "Unbounded", v |-> 0]} \cup
    {[k |-> kk, v |-> vv] : kk \in {"Included", "Excluded"}, vv \in 0..maxv}

Ranges(maxv) == {[s |-> sb, e |-> eb] : sb \in Bounds(maxv), eb \in Bounds(maxv)}

\* lo..hi, Rust's half-open Range.
HalfOpen(lo, hi) == [s |-> [k |-> "Included", v |-> lo], e |-> [k |-> "Excluded", v |-> hi]]

\* The interval [ReqLo, ReqHi) a range denotes; no upper bound is written as
\* a bound past every offset in use.
NoUpper == MaxLen + RangeSlack + 1
ReqLo(r) ==
    CASE r.s.k = "Included"  -> r.s.v
      [] r.s.k = "Excluded"  -> r.s.v + 1
      [] r.s.k = "Unbounded" -> 0
ReqHi(r) ==
    CASE r.e.k = "Included"  -> r.e.v + 1
      [] r.e.k = "Excluded"  -> r.e.v
      [] r.e.k = "Unbounded" -> NoUpper

\* traverse_chunks, the match on range.start_bound(): whether it returns Ok(())
\* at once, and the start it computes otherwise.
StartReturns(r, len) ==
    \/ r.s.k = "Included" /\ r.s.v >= len
    \/ r.s.k = "Excluded" /\ r.s.v + 1 > len

StartBound(r) ==
    CASE r.s.k = "Included"  -> r.s.v
      [] r.s.k = "Excluded"  -> r.s.v + 1
      [] r.s.k = "Unbounded" -> 0

\* traverse_chunks, the match on range.end_bound().
EndBound(r, len) ==
    CASE r.e.k = "Included"  -> IF r.e.v >= len THEN len ELSE r.e.v + 1
      [] r.e.k = "Excluded"  -> IF r.e.v > len THEN len ELSE r.e.v
      [] r.e.k = "Unbounded" -> len

(* ----------------------------- SwapCacheImpl -------------------------- *)

\* The mutable interior a lookup works on.
SwapState == [frames |-> frames, map |-> map, front |-> front, back |-> back,
              srcPos |-> srcPos]

MapRemove(m, key) == [p \in DOMAIN m \ {key} |-> m[p]]
MapInsert(m, key, val) == [p \in DOMAIN m \cup {key} |-> IF p = key THEN val ELSE m[p]]

\* SwapCacheImpl::load_page: [st, res, fidx]; res is "ok", "io" (Err returned)
\* or "panic" (unreachable!()).
LoadPage(st, page, io) ==
    LET f    == st.front
        key  == st.frames[f].page
        m1   == MapRemove(st.map, key)
        pos1 == page * page_sz
        buf  == ReadInto(srcLen, pos1, st.frames[f].data)
        pos2 == pos1 + ReadCount(srcLen, pos1, st.frames[f].data)
    IN  IF key \notin DOMAIN st.map
        THEN [st |-> st, res |-> "panic", fidx |-> NULL]
        ELSE IF io = "seek_err"
        THEN [st |-> [st EXCEPT !.map = m1], res |-> "io", fidx |-> NULL]
        ELSE IF io = "read_err"
        THEN [st |-> [st EXCEPT !.map = m1, !.srcPos = pos1], res |-> "io", fidx |-> NULL]
        ELSE [st |-> [st EXCEPT !.map = MapInsert(m1, page, f),
                                !.srcPos = pos2,
                                !.frames[f].data = buf,
                                !.frames[f].page = page],
              res |-> "ok", fidx |-> f]

\* SwapCacheImpl::promote_frame, assignment by assignment.
PromoteFrame(st, fidx) ==
    LET next_idx == st.frames[fidx].next
        prev_idx == st.frames[fidx].prev
        s1 == IF prev_idx # NULL
              THEN [st EXCEPT !.frames[prev_idx].next = next_idx]
              ELSE [st EXCEPT !.front = next_idx]
        s2 == IF prev_idx # NULL
              THEN [s1 EXCEPT !.frames[next_idx].prev = prev_idx]
              ELSE [s1 EXCEPT !.frames[next_idx].prev = NULL]
        s3 == [s2 EXCEPT !.frames[s2.back].next = fidx]
        s4 == [s3 EXCEPT !.frames[fidx].prev = s3.back]
        s5 == [s4 EXCEPT !.frames[fidx].next = NULL]
    IN  IF st.back # st.front /\ next_idx # NULL THEN s5 ELSE st

\* SwapCacheImpl::get_chunk up to the slice it returns: [st, res, fidx, off].
GetChunkAt(st, pos, io) ==
    LET page == pos \div page_sz
        hit  == page \in DOMAIN st.map
        ld   == IF hit THEN [st |-> st, res |-> "ok", fidx |-> st.map[page]]
                ELSE LoadPage(st, page, io)
    IN  IF ld.res # "ok"
        THEN [st |-> ld.st, res |-> ld.res, fidx |-> NULL, off |-> 0]
        ELSE [st |-> PromoteFrame(ld.st, ld.fidx), res |-> "ok", fidx |-> ld.fidx,
              off |-> pos - page * page_sz]

\* The slice get_chunk returns: the rest of the frame's buffer from off.
ChunkOf(fs, fidx, off) == Slice(fs[fidx].data, off, Len(fs[fidx].data))

(* --------------------------- reference LRU ---------------------------- *)

SeqRange(s) == {s[i] : i \in DOMAIN s}

RECURSIVE SeqWithout(_, _)
SeqWithout(s, x) ==
    IF s = <<>> THEN <<>>
    ELSE IF Head(s) = x THEN SeqWithout(Tail(s), x)
    ELSE <<Head(s)>> \o SeqWithout(Tail(s), x)

\* An access to page p in a true LRU cache: a resident page becomes the most
\* recent; otherwise the least recent page is evicted for it.
ShadowTouch(sh, p) ==
    IF p \in SeqRange(sh) THEN Append(SeqWithout(sh, p), p)
    ELSE Append(Tail(sh), p)

(* ---------------------------- traverse_chunks ------------------------- *)

Finish(t, r) == [thr EXCEPT ![t].pc = "done", ![t].ret = r]

\* FullCache::traverse_chunks, whole: no lock, at most one visitor call, whose
\* result is dropped (let _ = f(..)).
FullTraverse(t, r, op, buflen, outcome) ==
    LET len   == Len(data)
        start == StartBound(r)
        end   == EndBound(r, len)
        call  == [IdleThread EXCEPT !.op = op, !.buflen = buflen,
                                    !.lo = ReqLo(r), !.hi = ReqHi(r),
                                    !.start = start, !.end = end, !.pc = "done"]
    IN  /\ thr' = [thr EXCEPT ![t] =
              IF StartReturns(r, len)
              THEN [call EXCEPT !.start = 0, !.end = 0, !.ret = "ok"]
              ELSE IF start > end
              THEN [call EXCEPT !.ret = "slice_panic"]
              ELSE [call EXCEPT
                      !.log = <<[at |-> start, bytes |-> Slice(data, start, end)]>>,
                      !.vis = outcome,
                      !.ret = IF outcome = "panic" THEN "visitor_panic" ELSE "ok"]]
        /\ UNCHANGED <<srcLen, srcPos, kind, auto, newErr, data, swapVars,
                       lockOwner, poisoned, shadow, ioFailed, reader, outer>>

\* SwapCache::traverse_chunks up to the call of lock().
SwapTraverseEnter(t, r, op, buflen) ==
    LET len   == sz
        start == StartBound(r)
        end   == EndBound(r, len)
        call  == [IdleThread EXCEPT !.op = op, !.buflen = buflen,
                                    !.lo = ReqLo(r), !.hi = ReqHi(r)]
    IN  /\ thr' = [thr EXCEPT ![t] =
              IF StartReturns(r, len) \/ ~(start < len)
              THEN [call EXCEPT !.pc = "done", !.ret = "ok"]
              ELSE [call EXCEPT !.pc = "lock", !.start = start, !.end = end]]
        /\ UNCHANGED <<srcLen, srcPos, kind, auto, newErr, data, swapVars,
                       lockOwner, poisoned, shadow, ioFailed, reader, outer>>

\* A lock() that does not wait for the guard to be dropped.
LockFreeBroken == TRUE

\* Mutex::lock blocks until no guard is alive.
LockFree == lockOwner = NoThread

\* A lock() whose poison error is not looked at.
LockErrIgnored == FALSE

\* Mutex::lock returns Err when a thread panicked holding the guard.
LockErr == poisoned

\* self.swap.lock(): Err (the lock is poisoned) returns Error::Poison, the
\* guard inside the error being dropped; Ok keeps the guard to the return.
Lock(t) ==
    /\ thr[t].pc = "lock"
    /\ LockFree
    /\ IF LockErr
       THEN /\ thr' = Finish(t, "poison")
            /\ UNCHANGED lockOwner
       ELSE /\ thr' = [thr EXCEPT ![t].pc = "loop", ![t].pos = thr[t].start]
            /\ lockOwner' = t
    /\ UNCHANGED <<srcLen, srcPos, kind, auto, newErr, data, swapVars,
                   poisoned, shadow, ioFailed, reader, outer>>

\* The loop's get_chunk(pos)?: a panic unwinds through the guard (poison), an
\* Err returns it, Ok leaves the thread holding a borrowed slice of a frame.
GetChunk(t, io) ==
    /\ thr[t].pc = "loop"
    /\ LET g == GetChunkAt(SwapState, thr[t].pos, io)
       IN  /\ frames' = g.st.frames
           /\ map' = g.st.map
           /\ front' = g.st.front
           /\ back' = g.st.back
           /\ srcPos' = g.st.srcPos
           /\ CASE g.res = "panic" ->
                     /\ thr' = Finish(t, "unreachable")
                     /\ poisoned' = TRUE
                     /\ lockOwner' = NoThread
                     /\ UNCHANGED <<shadow, ioFailed>>
                [] g.res = "io" ->
                     /\ thr' = Finish(t, "io")
                     /\ lockOwner' = NoThread
                     /\ ioFailed' = TRUE
                     /\ UNCHANGED <<poisoned, shadow>>
                [] g.res = "ok" ->
                     /\ thr' = [thr EXCEPT ![t].pc = "visit",
                                           ![t].fidx = g.fidx,
                                           ![t].pos = thr[t].pos,
                                           ![t].chunk = ChunkOf(g.st.frames, g.fidx, g.off)]
                     /\ shadow' = ShadowTouch(shadow, thr[t].pos \div page_sz)
                     /\ UNCHANGED <<lockOwner, poisoned, ioFailed>>
    /\ UNCHANGED <<srcLen, kind, auto, newErr, data, sz, cache_sz, page_sz, reader, outer>>

\* The slice the visitor is called with: all of chunk, whether or not new_pos
\* passes end (chunk[..(new_pos - pos)] is chunk).
Delivered(chunk, pos, end) ==
    LET new_pos == pos + Len(chunk)
    IN  IF new_pos > end THEN Slice(chunk, 0, new_pos - pos) ELSE chunk

\* A loop that returns only once pos itself has passed end.
IsLastLate(chunk, pos, end) == pos > end

\* Whether the loop returns after this visitor call.
IsLast(chunk, pos, end) == pos + Len(chunk) > end

\* The rest of one loop iteration: the visitor call on the borrowed slice, then
\* return, propagate its failure, or go round again from new_pos.
Visit(t, outcome) ==
    /\ thr[t].pc = "visit"
    /\ LET off     == page_sz - Len(thr[t].chunk)
           chunk   == ChunkOf(frames, thr[t].fidx, off)
           pos     == thr[t].pos
           new_pos == pos + Len(chunk)
           entry   == [at |-> pos, bytes |-> Delivered(chunk, pos, thr[t].end)]
           seen    == [thr EXCEPT ![t].log = Append(thr[t].log, entry),
                                  ![t].vis = outcome,
                                  ![t].chunk = <<>>, ![t].fidx = NULL]
       IN  CASE outcome = "panic" ->
                  /\ thr' = [seen EXCEPT ![t].pc = "done", ![t].ret = "visitor_panic"]
                  /\ poisoned' = TRUE
                  /\ lockOwner' = NoThread
             [] outcome = "err" ->
                  /\ thr' = [seen EXCEPT ![t].pc = "done", ![t].ret = "visitor_err"]
                  /\ lockOwner' = NoThread
                  /\ UNCHANGED poisoned
             [] outcome = "ok" /\ IsLast(chunk, pos, thr[t].end) ->
                  /\ thr' = [seen EXCEPT ![t].pc = "done", ![t].ret = "ok"]
                  /\ lockOwner' = NoThread
                  /\ UNCHANGED poisoned
             [] outcome = "ok" /\ ~IsLast(chunk, pos, thr[t].end) ->
                  /\ thr' = [seen EXCEPT ![t].pc = "loop", ![t].pos = new_pos]
                  /\ UNCHANGED <<lockOwner, poisoned>>
    /\ UNCHANGED <<srcLen, srcPos, kind, auto, newErr, data, swapVars, shadow, ioFailed, reader, outer>>

\* What a visitor may do with a chunk.  Cache::read's closure writes into the
\* buffer, which never fails.
VisitorOutcomes(op) == IF op = "read" THEN {"ok"} ELSE {"ok", "err", "panic"}

\* A call of traverse_chunks(range, f), on whichever variant the cache is.
Traverse(t, r, op, buflen, outcome) ==
    /\ thr[t].pc = "idle"
    /\ kind \in {"full", "swap"}
    /\ IF kind = "full"
       THEN FullTraverse(t, r, op, buflen, outcome)
       ELSE SwapTraverseEnter(t, r, op, buflen)

\* The caller takes the result; the thread is free for its next call.
Return(t) ==
    /\ thr[t].pc = "done"
    /\ thr' = [thr EXCEPT ![t] = IdleThread]
    /\ UNCHANGED <<srcLen, srcPos, kind, auto, newErr, data, swapVars,
                   lockOwner, poisoned, shadow, ioFailed, reader, outer>>

(* ------------------------------ into_inner ---------------------------- *)

\* Cache::into_inner(self): Mutex::into_inner fails on a poisoned lock
\* (SwapCache only); otherwise the source is sought back to 0 and returned.
\* Taking self by value needs every borrow of the cache to have ended.
IntoInner(io) ==
    /\ kind \in {"full", "swap"}
    /\ \A t \in Threads : thr[t].pc \in {"idle", "done"}
    /\ kind' = "consumed"
    /\ IF kind = "swap" /\ poisoned
       THEN newErr' = "poison" /\ UNCHANGED srcPos
       ELSE IF io # "ok"
       THEN newErr' = "io" /\ UNCHANGED srcPos
       ELSE newErr' = "ok" /\ srcPos' = 0
    /\ UNCHANGED <<srcLen, auto, data, swapVars, lockOwner, poisoned, thr,
                   shadow, ioFailed, reader, outer>>

(* ------------------------------ AutoCache ----------------------------- *)

RECURSIVE Pow2(_)
Pow2(k) == IF k = 0 THEN 1 ELSE 2 * Pow2(k - 1)

\* n >> shift
Shr(n, shift) == n \div Pow2(shift)

\* auto_cache.rs sqrt, first loop: the shift it ends with.
RECURSIVE SqrtShift(_, _)
SqrtShift(n, shift) ==
    IF Shr(n, shift) # 0 /\ Shr(n, shift) # n THEN SqrtShift(n, shift + 2) ELSE shift

\* auto_cache.rs sqrt, second loop.
RECURSIVE SqrtLoop(_, _, _)
SqrtLoop(n, shift, ret) ==
    IF shift < 0 THEN ret
    ELSE LET candidate == 2 * ret + 1
         IN  SqrtLoop(n, shift - 2,
                      IF candidate * candidate <= Shr(n, shift) THEN candidate ELSE 2 * ret)

Sqrt(n) == SqrtLoop(n, SqrtShift(n, 2) - 2, 0)

\* A frame count picked without the test against the budget.
AutoFrameCountUntested(page_sz0, mem_max) == page_sz0 + 1

\* The frame count AutoCache::new picks for page size page_sz0.
AutoFrameCount(page_sz0, mem_max) ==
    IF page_sz0 * (page_sz0 + 1) > mem_max THEN page_sz0 ELSE page_sz0 + 1

\* AutoCache::new makes no source call for mem_max = 0; otherwise one seek and
\* then the calls of the constructor it chooses.
AutoFailures(mem_max) ==
    IF mem_max = 0 THEN {NoFail}
    ELSE IF srcLen > mem_max
    THEN NewFailures(3, AutoFrameCount(Sqrt(mem_max), mem_max))
    ELSE NewFailures(2, ReadToEndReads(srcLen))

\* AutoCache::new(source, mem_max).
AutoCacheNew(mem_max, io) ==
    IF mem_max = 0
    THEN ConstructFailed("zero_cache") /\ srcPos' = srcPos
    ELSE IF io.op = "seek" /\ io.at = 1
    THEN ConstructFailed("io") /\ srcPos' = srcPos
    ELSE IF srcLen > mem_max
    THEN SwapCacheNew(Sqrt(mem_max), AutoFrameCount(Sqrt(mem_max), mem_max), io, TRUE)
    ELSE FullCacheNew(io, TRUE)

(* ------------------------------ actions ------------------------------- *)

NewAuto ==
    /\ kind = "none"
    /\ \E m \in 0..MaxMem : \E io \in AutoFailures(m) : AutoCacheNew(m, io)

CallTraverseIn(rs) ==
    \E t \in Threads, r \in rs, o \in VisitorOutcomes("traverse") :
        Traverse(t, r, "traverse", 0, o)

\* Cache::read(offset, buffer): traverse_chunks(offset..buffer.len(), write).
CallReadIn(offsets, buflens) ==
    \E t \in Threads, offset \in offsets, b \in buflens :
        Traverse(t, HalfOpen(offset, b), "read", b, "ok")

CallTraverse == CallTraverseIn(Ranges(srcLen + RangeSlack))

CallRead == CallReadIn(0..(srcLen + RangeSlack), 0..(srcLen + RangeSlack))

DoLock == \E t \in Threads : Lock(t)

DoGetChunk == \E t \in Threads, io \in IOOutcomes : GetChunk(t, io)

DoVisit == \E t \in Threads : \E o \in VisitorOutcomes(thr[t].op) : Visit(t, o)

DoReturn == \E t \in Threads : Return(t)

DoIntoInner == \E io \in {"ok", "seek_err"} : IntoInner(io)

Next ==
    \/ NewFull
    \/ NewSwap
    \/ NewAuto
    \/ CallTraverse
    \/ CallRead
    \/ DoLock
    \/ DoGetChunk
    \/ DoVisit
    \/ DoReturn
    \/ DoIntoInner

Spec == Init /\ [][Next]_vars

\* The same program with a caller that keeps running: a thread inside
\* traverse_chunks takes its next step (lock, get_chunk, the visitor call and
\* what follows it) and a visitor that is called returns.
SpecLive ==
    Init /\ [][Next]_vars /\ WF_vars(DoLock) /\ WF_vars(DoGetChunk) /\ WF_vars(DoVisit)

(* ---------------- two threads sharing one SwapCache ------------------- *)

\* Source length, page size and frame count of the shared cache.
ConcLen == 2
ConcPage == 2
ConcFrames == 2

InitConc == InitWith({ConcLen}, 2) /\ srcPos = 0

NewSwapConc ==
    /\ kind = "none"
    /\ \E p \in 1..ConcPage, n \in 1..ConcFrames : SwapCacheNew(p, n, NoFail, FALSE)

\* Each thread traverses a suffix lo..L of the source.
ConcRanges == {HalfOpen(lo, srcLen) : lo \in 0..srcLen}

ConcTraverse == CallTraverseIn(ConcRanges)

\* Reads into a buffer as long as the source, from any offset.
ConcRead == CallReadIn(0..srcLen, {srcLen})

NextConc ==
    \/ NewSwapConc
    \/ ConcTraverse
    \/ ConcRead
    \/ DoLock
    \/ DoGetChunk
    \/ DoVisit
    \/ DoReturn
    \/ DoIntoInner

SpecConc == InitConc /\ [][NextConc]_vars

(* ------------- one caller reading twice from the start ---------------- *)

\* Call record 1 is the caller's current call, and is kept after it has
\* returned while record 2 runs the same read(0, buf) once more.  The source
\* may fail in the calls before the two reads, but not during them.

\* Any read, to bring the cache into any state, the read(0, buf) to be
\* repeated among them.
TwiceRead ==
    /\ thr[2].pc = "idle"
    /\ \E offset \in 0..srcLen, b \in 0..(srcLen + RangeSlack) :
          Traverse(1, HalfOpen(offset, b), "read", b, "ok")

\* The same read(0, buf) again, right after the first has returned.
TwiceReadAgain ==
    /\ thr[2].pc = "idle"
    /\ thr[1].pc = "done" /\ thr[1].op = "read" /\ thr[1].lo = 0
    /\ thr[1].ret # "io"
    /\ Traverse(2, HalfOpen(0, thr[1].buflen), "read", thr[1].buflen, "ok")

TwiceGetChunk ==
    \/ \E io \in IOOutcomes : GetChunk(1, io)
    \/ GetChunk(2, "ok")

\* The caller goes on to another call.
TwiceReturn ==
    /\ thr[2].pc \in {"idle", "done"}
    /\ thr[1].pc = "done"
    /\ thr' = [t \in Threads |-> IdleThread]
    /\ UNCHANGED <<srcLen, srcPos, kind, auto, newErr, data, swapVars,
                   lockOwner, poisoned, shadow, ioFailed, reader, outer>>

InitTwice == InitWith(0..MaxLen, 2)

NextTwice ==
    \/ NewFull
    \/ NewSwap
    \/ TwiceRead
    \/ TwiceReadAgain
    \/ DoLock
    \/ TwiceGetChunk
    \/ DoVisit
    \/ TwiceReturn

SpecTwice == InitTwice /\ [][NextTwice]_vars

(* ------------------------------ Cache::read --------------------------- *)

\* Cache::read's closure over the chunks of one traversal: each call writes
\* min(chunk.len(), room left) bytes at buffer[total..].  The bytes written,
\* in order; their number is the total that read returns.
RECURSIVE BufWrite(_, _)
BufWrite(lg, room) ==
    IF lg = <<>> THEN <<>>
    ELSE LET n == Min(Len(Head(lg).bytes), room)
         IN  SubSeq(Head(lg).bytes, 1, n) \o BufWrite(Tail(lg), room - n)

(* ----------------------------- CacheReader ---------------------------- *)

\* SwapCache::traverse_chunks's loop, run to its end by one caller with a
\* working source: [st, log, res], log being the visitor's calls.
RECURSIVE SwapLoop(_, _, _, _)
SwapLoop(st, pos, end, lg) ==
    The({ LET chunk == ChunkOf(g.st.frames, g.fidx, g.off)
              entry == [at |-> pos, bytes |-> Delivered(chunk, pos, end)]
          IN  IF g.res # "ok" THEN [st |-> g.st, log |-> lg, res |-> g.res]
              ELSE IF IsLast(chunk, pos, end)
              THEN [st |-> g.st, log |-> Append(lg, entry), res |-> "ok"]
              ELSE SwapLoop(g.st, pos + Len(chunk), end, Append(lg, entry))
          : g \in {GetChunkAt(st, pos, "ok")} })

\* Cache::read(offset, buffer) on the cache, its interior being st, whole:
\* [st, res, bytes], res being
\* "ok", "err" (Error::Poison) or "panic", bytes what was written to buffer[0..),
\* which a call that then fails or panics has written all the same; their
\* number is what an Ok carries.
CacheReadFrom(st, offset, buflen) ==
    LET r     == HalfOpen(offset, buflen)
        len   == IF kind = "full" THEN Len(data) ELSE sz
        start == StartBound(r)
        end   == EndBound(r, len)
        none  == [st |-> st, res |-> "ok", bytes |-> <<>>]
    IN  IF StartReturns(r, len) THEN none
        ELSE IF kind = "full"
        THEN IF start > end THEN [none EXCEPT !.res = "panic"]
             ELSE [none EXCEPT !.bytes =
                      BufWrite(<<[at |-> start, bytes |-> Slice(data, start, end)]>>, buflen)]
        ELSE IF ~(start < len) THEN none
        ELSE IF poisoned THEN [none EXCEPT !.res = "err"]
        ELSE The({ [st |-> loop.st, res |-> loop.res,
                    bytes |-> BufWrite(loop.log, buflen)]
                   : loop \in {SwapLoop(st, start, end, <<>>)} })

CacheRead(offset, buflen) == CacheReadFrom(SwapState, offset, buflen)

\* <CacheReader as Read>::read(buf): cache.read(self.pos, buf), then
\* self.pos += len.
ReaderRead(buflen) ==
    /\ kind \in {"full", "swap"}
    /\ \E c \in {CacheRead(reader.pos, buflen)} :
        /\ reader' = [pos  |-> IF c.res = "ok" THEN reader.pos + Len(c.bytes) ELSE reader.pos,
                      call |-> "read", from |-> "none", off |-> buflen,
                      was  |-> reader.pos, res |-> c.res,
                      val  |-> IF c.res = "ok" THEN Len(c.bytes) ELSE 0]
        /\ frames' = c.st.frames
        /\ map' = c.st.map
        /\ front' = c.st.front
        /\ back' = c.st.back
        /\ srcPos' = c.st.srcPos
        /\ poisoned' = (poisoned \/ (kind = "swap" /\ c.res = "panic"))
        /\ UNCHANGED <<srcLen, kind, auto, newErr, data, sz, cache_sz, page_sz,
                       lockOwner, thr, shadow, ioFailed, outer>>

\* Width of the offset of SeekFrom::Current and SeekFrom::End (i64 in the
\* source), and the least and greatest offsets of that width.
OffsetBits == 3
MinOffset == 0 - Pow2(OffsetBits - 1)
MaxOffset == Pow2(OffsetBits - 1) - 1

\* -offset as u64, for offset < 0.  Negating the least offset overflows: the
\* build either panics there or wraps to the same bits, which as u64 are the
\* magnitude all the same.
NegOverflows(offset) == offset = MinOffset
NegAsU64(offset) == 0 - offset

\* <CacheReader as Seek>::seek, the new self.pos.
SeekPos(from, offset, pos, len) ==
    CASE from = "Current" ->
            IF offset < 0
            THEN IF NegAsU64(offset) > pos THEN 0 ELSE pos - NegAsU64(offset)
            ELSE IF pos + offset > len THEN len ELSE pos + offset
      [] from = "End" ->
            IF offset < 0
            THEN IF NegAsU64(offset) > len THEN 0 ELSE len - NegAsU64(offset)
            ELSE len
      [] from = "Start" ->
            IF offset > len THEN len ELSE offset

\* The SeekFrom values: Start takes a u64, Current and End an i64.
SeekFroms ==
    {[from |-> "Start", off |-> o] : o \in 0..(Pow2(OffsetBits) - 1)} \cup
    {[from |-> f, off |-> o] : f \in {"Current", "End"}, o \in MinOffset..MaxOffset}

\* How a seek can end.
SeekResults(sf) ==
    IF sf.from # "Start" /\ sf.off < 0 /\ NegOverflows(sf.off)
    THEN {"ok", "panic"} ELSE {"ok"}

\* self.cache.len()
CacheLen == IF kind = "full" THEN Len(data) ELSE sz

ReaderSeek(sf, res) ==
    LET new == IF res = "ok" THEN SeekPos(sf.from, sf.off, reader.pos, CacheLen)
               ELSE reader.pos
    IN  /\ kind \in {"full", "swap"}
        /\ reader' = [pos |-> new, call |-> "seek", from |-> sf.from, off |-> sf.off,
                      was |-> reader.pos, res |-> res, val |-> new]
        /\ UNCHANGED <<srcLen, srcPos, kind, auto, newErr, data, swapVars,
                       lockOwner, poisoned, thr, shadow, ioFailed, outer>>

\* Reads into buffers of up to a page more than the source.
DoReaderRead == \E b \in 0..(srcLen + MaxPage) : ReaderRead(b)

DoReaderSeek == \E sf \in SeekFroms : \E res \in SeekResults(sf) : ReaderSeek(sf, res)

NextReader ==
    \/ NewFull
    \/ NewSwap
    \/ DoReaderRead
    \/ DoReaderSeek

SpecReader == Init /\ [][NextReader]_vars

(* ---------- an outer SwapCache over a CacheReader over a SwapCache ----- *)

\* The outer cache's source is the CacheReader, over the SwapCache of the
\* state (the inner cache).  lw is what lies under the outer cache: the inner
\* cache's interior st and the reader's pos.
Lower == [st |-> SwapState, pos |-> reader.pos, poisoned |-> poisoned]

\* source.seek(SeekFrom::Start(offset)) on the reader.
LowerSeekStart(lw, offset) == [lw EXCEPT !.pos = SeekPos("Start", offset, lw.pos, sz)]

\* source.read(&mut buf) on the reader: [lw, buf, res].
LowerRead(lw, buf) ==
    The({ LET n == Len(c.bytes)
          IN  [lw  |-> [st |-> c.st, pos |-> IF c.res = "ok" THEN lw.pos + n ELSE lw.pos,
                        poisoned |-> lw.poisoned \/ (kind = "swap" /\ c.res = "panic")],
               buf |-> c.bytes \o SubSeq(buf, n + 1, Len(buf)),
               res |-> c.res]
          : c \in {CacheReadFrom(lw.st, lw.pos, Len(buf))} })

\* SwapCacheImpl::new's loop from frame i on: each frame's buffer is filled by
\* one read from where the last one ended.  [lw, bufs, res].
RECURSIVE OuterFill(_, _, _, _, _)
OuterFill(lw, i, frame_count, page_size, bufs) ==
    IF i = frame_count THEN [lw |-> lw, bufs |-> bufs, res |-> "ok"]
    ELSE The({ IF rd.res # "ok" THEN [lw |-> rd.lw, bufs |-> bufs, res |-> rd.res]
               ELSE OuterFill(rd.lw, i + 1, frame_count, page_size, Append(bufs, rd.buf))
               : rd \in {LowerRead(lw, Zeros(page_size))} })

\* SwapCache::new(reader, page_size, frame_count), both positive: the length is
\* where seek(End(0)) lands, then SwapCacheImpl::new seeks to 0 and fills.
OuterNew(page_size, frame_count) ==
    The({ [lw  |-> fill.lw,
           res |-> fill.res,
           o   |-> IF fill.res # "ok" THEN NoOuter ELSE
                   [built |-> TRUE, page_sz |-> page_size,
                    sz |-> SeekPos("End", 0, reader.pos, sz),
                    cache_sz |-> page_size * frame_count,
                    frames |-> [i \in 0..(frame_count - 1) |->
                                   [NewFrame(i, frame_count, page_size, 0)
                                       EXCEPT !.data = fill.bufs[i + 1]]],
                    map |-> [p \in 0..(frame_count - 1) |-> p],
                    front |-> frame_count - 1, back |-> 0,
                    poisoned |-> FALSE,
                    rd_off |-> 0, rd_len |-> 0, rd_res |-> "none", rd_bytes |-> <<>>]]
          : fill \in {OuterFill(LowerSeekStart(Lower, 0), 0, frame_count, page_size, <<>>)} })

\* SwapCacheImpl::load_page of the outer cache: [o, lw, res, fidx].
OuterLoadPage(o, lw, page) ==
    LET f   == o.front
        key == o.frames[f].page
        m1  == MapRemove(o.map, key)
    IN  IF key \notin DOMAIN o.map
        THEN [o |-> o, lw |-> lw, res |-> "panic", fidx |-> NULL]
        ELSE The({ IF rd.res # "ok"
                   THEN [o |-> [o EXCEPT !.map = m1, !.frames[f].data = rd.buf],
                         lw |-> rd.lw, res |-> rd.res, fidx |-> NULL]
                   ELSE [o |-> [o EXCEPT !.map = MapInsert(m1, page, f),
                                         !.frames[f].data = rd.buf,
                                         !.frames[f].page = page],
                         lw |-> rd.lw, res |-> "ok", fidx |-> f]
                   : rd \in {LowerRead(LowerSeekStart(lw, page * o.page_sz),
                                       o.frames[f].data)} })

\* SwapCacheImpl::get_chunk of the outer cache: [o, lw, res, fidx, off].
OuterGetChunk(o, lw, pos) ==
    LET page == pos \div o.page_sz
    IN  The({ IF ld.res # "ok"
              THEN [o |-> ld.o, lw |-> ld.lw, res |-> ld.res, fidx |-> NULL, off |-> 0]
              ELSE [o |-> PromoteFrame(ld.o, ld.fidx), lw |-> ld.lw, res |-> "ok",
                    fidx |-> ld.fidx, off |-> pos - page * o.page_sz]
              : ld \in {IF page \in DOMAIN o.map
                        THEN [o |-> o, lw |-> lw, res |-> "ok", fidx |-> o.map[page]]
                        ELSE OuterLoadPage(o, lw, page)} })

\* The outer cache's traverse_chunks loop: [o, lw, log, res].
RECURSIVE OuterLoop(_, _, _, _, _)
OuterLoop(o, lw, pos, end, lg) ==
    The({ LET chunk == ChunkOf(g.o.frames, g.fidx, g.off)
              entry == [at |-> pos, bytes |-> Delivered(chunk, pos, end)]
          IN  IF g.res # "ok" THEN [o |-> g.o, lw |-> g.lw, log |-> lg, res |-> g.res]
              ELSE IF IsLast(chunk, pos, end)
              THEN [o |-> g.o, lw |-> g.lw, log |-> Append(lg, entry), res |-> "ok"]
              ELSE OuterLoop(g.o, g.lw, pos + Len(chunk), end, Append(lg, entry))
          : g \in {OuterGetChunk(o, lw, pos)} })

\* Cache::read(offset, buffer) on the outer cache: [o, lw, res, bytes], bytes
\* being what was written to the buffer, whatever res is.
OuterCacheRead(o, lw, offset, buflen) ==
    LET r     == HalfOpen(offset, buflen)
        start == StartBound(r)
        end   == EndBound(r, o.sz)
    IN  IF StartReturns(r, o.sz) \/ ~(start < o.sz)
        THEN [o |-> o, lw |-> lw, res |-> "ok", bytes |-> <<>>]
        ELSE IF o.poisoned
        THEN [o |-> o, lw |-> lw, res |-> "poison", bytes |-> <<>>]
        ELSE The({ [o |-> loop.o, lw |-> loop.lw, res |-> loop.res,
                    bytes |-> BufWrite(loop.log, buflen)]
                   : loop \in {OuterLoop(o, lw, start, end, <<>>)} })

\* Longest source and most frames per cache of the stacked caches.
StackLen == 4
StackFrames == 2

InitStack == InitWith(0..StackLen, 1) /\ srcPos = 0

\* The state under the outer cache after one of its operations; kind is left
\* to the operation.
LowerBecomes(lw) ==
    /\ frames' = lw.st.frames
    /\ map' = lw.st.map
    /\ front' = lw.st.front
    /\ back' = lw.st.back
    /\ srcPos' = lw.st.srcPos
    /\ reader' = [reader EXCEPT !.pos = lw.pos]
    /\ poisoned' = lw.poisoned
    /\ UNCHANGED <<srcLen, auto, newErr, data, sz, cache_sz, page_sz,
                   lockOwner, thr, shadow, ioFailed>>

NewInner ==
    /\ kind = "none"
    /\ \E p \in 1..MaxPage, n \in 1..StackFrames : SwapCacheNew(p, n, NoFail, FALSE)

\* SwapCache::new(CacheReader::new(inner), p, n).  A constructor that fails
\* or unwinds drops the reader it was given, and the inner cache with it.
NewOuter ==
    /\ kind = "swap"
    /\ ~outer.built
    /\ \E p \in 1..MaxPage, n \in 1..StackFrames :
          \E new \in {OuterNew(p, n)} :
              /\ outer' = IF new.res = "ok" THEN new.o
                          ELSE [NoOuter EXCEPT !.rd_res = new.res]
              /\ kind' = IF new.res = "ok" THEN kind ELSE "dropped"
              /\ LowerBecomes(new.lw)

\* outer.read(offset, buf), the last read being kept in rd_off, rd_len, rd_res
\* ("ok", "err" for an Err from the reader, "poison" for the outer lock's, or
\* "panic") and rd_bytes.  A panic under the outer guard poisons the outer
\* mutex; one inside the inner cache's traversal poisons the inner one too.
OuterRead ==
    /\ outer.built
    /\ \E offset \in 0..srcLen, b \in 0..srcLen :
          \E c \in {OuterCacheRead(outer, Lower, offset, b)} :
              /\ outer' = [c.o EXCEPT !.poisoned = c.o.poisoned \/ c.res = "panic",
                                      !.rd_off = offset, !.rd_len = b,
                                      !.rd_res = c.res, !.rd_bytes = c.bytes]
              /\ UNCHANGED kind
              /\ LowerBecomes(c.lw)

NextStack ==
    \/ NewInner
    \/ NewOuter
    \/ OuterRead

SpecStack == InitStack /\ [][NextStack]_vars

(* ------------------- AutoCache over longer sources -------------------- *)

\* Longest source and largest memory budget given to AutoCache::new here.
AutoLen == 17
AutoMem == 16

InitAuto == InitWith(0..AutoLen, 1)

NewAutoAny ==
    /\ kind = "none"
    /\ \E m \in 0..AutoMem : \E io \in AutoFailures(m) : AutoCacheNew(m, io)

\* What is asked of the AutoCache: the whole source or its second half,
\* traversed or read into a buffer as long as the source.
AutoOffsets == {0, srcLen \div 2}

AutoTraverse == CallTraverseIn({HalfOpen(lo, srcLen) : lo \in AutoOffsets})

AutoRead == CallReadIn(AutoOffsets, {srcLen})

NextAuto ==
    \/ NewAutoAny
    \/ AutoTraverse
    \/ AutoRead
    \/ DoLock
    \/ DoGetChunk
    \/ DoVisit
    \/ DoReturn
    \/ DoIntoInner

SpecAuto == InitAuto /\ [][NextAuto]_vars

(* ============================ properties ============================== *)

\* All bytes the visitor received, in order.
RECURSIVE Bytes(_)
Bytes(lg) == IF lg = <<>> THEN <<>> ELSE Head(lg).bytes \o Bytes(Tail(lg))

\* The source bytes at offsets [a, b), cut to the source.
SourceSlice(a, b) == [i \in 1..Max(0, Min(b, srcLen) - a) |-> SourceByte(a + i - 1)]

Returned(t) == thr[t].pc = "done"

\* C1 (round trip): a traversal of [0, L] that returns success has passed the
\* visitor, in order, exactly the L bytes of the source.
C1_RoundTrip ==
    \A t \in Threads :
        (Returned(t) /\ thr[t].op = "traverse" /\ thr[t].ret = "ok"
            /\ thr[t].lo = 0 /\ thr[t].hi >= srcLen)
        => Bytes(thr[t].log) = Source(srcLen)

\* C2 (read): read(offset, buffer of length B), unless the source fails or
\* the lock is poisoned, returns without panic n = min(B, L - offset) (0 from
\* offset >= L) with buffer[0..n) the source bytes from offset.
C2_ReadExact ==
    \A t \in Threads :
        (Returned(t) /\ thr[t].op = "read" /\ thr[t].ret \notin {"io", "poison"})
        => /\ thr[t].ret = "ok"
           /\ BufWrite(thr[t].log, thr[t].buflen)
                = SourceSlice(thr[t].lo, thr[t].lo + thr[t].buflen)

\* C3 (chunks inside the range): the chunks of a traversal start at the range
\* start, each ends where the next begins, none reaches past min(range.end, L),
\* and a traversal that returns success ends exactly there.
C3_ChunksInRange ==
    \A t \in Threads :
        thr[t].op = "traverse" =>
            LET lg  == thr[t].log
                lim == Min(thr[t].hi, srcLen)
                endOf(i) == lg[i].at + Len(lg[i].bytes)
            IN  /\ lg # <<>> => lg[1].at = thr[t].lo
                /\ \A i \in 1..(Len(lg) - 1) : lg[i].at < lg[i + 1].at /\ endOf(i) = lg[i + 1].at
                /\ \A i \in 1..Len(lg) : endOf(i) <= lim
                /\ (Returned(t) /\ thr[t].ret = "ok" /\ lg # <<>>) => endOf(Len(lg)) = lim

\* C4 (short tail): on a SwapCache whose L is no multiple of P, a traversal
\* from start < L to the end of the source that returns success has delivered
\* exactly the L - start source bytes from start, and no padding.
C4_ShortTail ==
    \A t \in Threads :
        (kind = "swap" /\ srcLen % page_sz # 0
            /\ Returned(t) /\ thr[t].op = "traverse" /\ thr[t].ret = "ok"
            /\ thr[t].lo < srcLen /\ thr[t].hi >= srcLen)
        => Bytes(thr[t].log) = SourceSlice(thr[t].lo, srcLen)

\* C5 (LRU eviction): with N >= 2 frames and no failed source operation, the
\* resident pages are those of the reference LRU cache fed the same accesses.
C5_ResidentSetIsLRU ==
    (kind = "swap" /\ Cardinality(DOMAIN frames) >= 2 /\ ~ioFailed)
    => DOMAIN map = SeqRange(shadow)

\* The threads between acquiring the lock and returning.
InCritical == {t \in Threads : thr[t].pc \in {"loop", "visit"}}

\* C6 (serialization): at most one traversal is between acquiring the lock
\* and returning, it is the holder of the guard, and the slice it is about to
\* hand to its visitor is still what get_chunk returned: nobody has loaded,
\* evicted or promoted in between.
C6_Serialized ==
    /\ Cardinality(InCritical) <= 1
    /\ \A t \in InCritical : lockOwner = t
    /\ \A t \in Threads :
          thr[t].pc = "visit" =>
              thr[t].chunk = ChunkOf(frames, thr[t].fidx, page_sz - Len(thr[t].chunk))

\* C6 witness: one thread holds a chunk for its second visitor call while the
\* other waits in lock().
C6_Witness ==
    \E t, u \in Threads :
        /\ thr[t].pc = "visit" /\ thr[t].log # <<>>
        /\ thr[u].pc = "lock"

\* C7 (usable after an I/O failure): no traverse_chunks call panics in
\* load_page, whatever failed before it.
C7_NoPanicAfterIOFailure ==
    \A t \in Threads : thr[t].ret # "unreachable"

\* C8 (visitor failure): a call whose visitor returned a failure returns that
\* failure; the call returns success only if no visitor call failed.
C8_VisitorFailureReturned ==
    \A t \in Threads :
        (Returned(t) /\ thr[t].vis = "err") => thr[t].ret = "visitor_err"

\* C9 as claimed (poison): once the lock is poisoned, every call that returns
\* returns Poison and has delivered no chunk, and into_inner returns Poison.
C9_AlwaysPoison ==
    [][(kind = "swap" /\ poisoned) =>
          /\ \A t \in Threads :
                (thr[t].pc # "done" /\ thr'[t].pc = "done")
                => (thr'[t].log = <<>> /\ thr'[t].ret = "poison")
          /\ kind' = "consumed" => newErr' = "poison"]_vars

\* C9 as amended (poison): once the lock is poisoned, every call that returns
\* has delivered no chunk; it returns Poison if its range starts below L and
\* success (before reaching the lock) if it starts at or past L; into_inner
\* returns Poison.
C9_PoisonUnlessOutOfRange ==
    [][(kind = "swap" /\ poisoned) =>
          /\ \A t \in Threads :
                (thr[t].pc # "done" /\ thr'[t].pc = "done")
                => /\ thr'[t].log = <<>>
                   /\ thr'[t].ret = IF thr'[t].lo < srcLen THEN "poison" ELSE "ok"
          /\ kind' = "consumed" => newErr' = "poison"]_vars

\* C9 witness: a call made on the poisoned cache has returned Poison.
C9_Witness ==
    /\ kind = "swap" /\ poisoned
    /\ \E t \in Threads : Returned(t) /\ thr[t].ret = "poison" /\ thr[t].lo < srcLen

\* C10 (empty range): a traversal whose range starts below L and is empty once
\* clamped returns success without a visitor call and without a panic (on a
\* cache whose lock is not poisoned).
C10_EmptyRangeNoCall ==
    \A t \in Threads :
        (Returned(t) /\ thr[t].op = "traverse" /\ thr[t].ret # "poison"
            /\ thr[t].lo < srcLen /\ Min(thr[t].hi, srcLen) <= thr[t].lo)
        => (thr[t].ret = "ok" /\ thr[t].log = <<>>)

\* C11 (out of range): a traverse_chunks or read call whose range starts at or
\* past L returns success at once, with no visitor call, and leaves the cache,
\* the source position and the lock as they were.
C11_OutOfRangeNoOp ==
    [][\A t \in Threads :
          (thr[t].pc = "idle" /\ thr'[t].pc # "idle" /\ thr'[t].lo >= srcLen)
          => /\ thr'[t].pc = "done"
             /\ thr'[t].ret = "ok"
             /\ thr'[t].log = <<>>
             /\ UNCHANGED <<data, swapVars, srcPos, lockOwner, poisoned>>]_vars

\* C12 (idempotent reads): read(0, buf) called twice in succession returns the
\* same count and writes the same bytes to buf both times.
C12_IdempotentRead ==
    (thr[1].pc = "done" /\ 2 \in Threads /\ thr[2].pc = "done")
    => /\ thr[2].ret = thr[1].ret
       /\ BufWrite(thr[2].log, thr[2].buflen) = BufWrite(thr[1].log, thr[1].buflen)

\* C14 (reader position): the position of a CacheReader lies in [0, L] after
\* any sequence of read and seek calls.
C14_PositionInRange ==
    kind \in {"full", "swap"} => (0 <= reader.pos /\ reader.pos <= CacheLen)

Clamp(x, lo, hi) == Max(lo, Min(x, hi))

\* C15 (seek): a seek does not fail, leaves pos at min(o, L) for Start(o), at
\* clamp(pos + o, 0, L) for Current(o) and at clamp(L + o, 0, L) for End(o),
\* and returns the new pos.
C15_SeekSaturates ==
    reader.call = "seek" =>
        /\ reader.res = "ok"
        /\ reader.val = reader.pos
        /\ reader.pos =
              CASE reader.from = "Start"   -> Min(reader.off, CacheLen)
                [] reader.from = "Current" -> Clamp(reader.was + reader.off, 0, CacheLen)
                [] reader.from = "End"     -> Clamp(CacheLen + reader.off, 0, CacheLen)

\* The source bytes of page p of size psz, cut at the end of the source.
SourcePage(p, psz) == SourceSlice(p * psz, (p + 1) * psz)

\* C13 (stacking): an outer SwapCache over a CacheReader over an inner
\* SwapCache has len() = L, its read(0, buf) with a buffer of length L returns
\* L with buf the source, and every page it holds begins with the source bytes
\* of that page.
C13_Stacked ==
    outer.built =>
        /\ outer.sz = srcLen
        /\ (outer.rd_res # "none" /\ outer.rd_off = 0 /\ outer.rd_len = srcLen)
              => (outer.rd_res = "ok" /\ outer.rd_bytes = Source(srcLen))
        /\ \A p \in DOMAIN outer.map :
              LET want == SourcePage(p, outer.page_sz)
              IN  SubSeq(outer.frames[outer.map[p]].data, 1, Len(want)) = want

\* The integer square root.
FloorSqrt(m) == CHOOSE r \in 0..m : r * r <= m /\ (r + 1) * (r + 1) > m

\* C16 (AutoCache selection): AutoCache::new(source, M) with M >= 1, when it
\* succeeds, has built the full variant with cache_size() = L if L <= M, and
\* otherwise the swap variant with page size floor(sqrt(M)) and cache_size()
\* = P * N <= M.
C16_AutoSelects ==
    [][kind = "none" => \A m \in 1..AutoMem : \A io \in AutoFailures(m) :
          (AutoCacheNew(m, io) /\ newErr' = "ok")
          => IF srcLen <= m
             THEN kind' = "full" /\ Len(data') = srcLen
             ELSE /\ kind' = "swap"
                  /\ page_sz' = FloorSqrt(m)
                  /\ cache_sz' = page_sz' * Cardinality(DOMAIN frames')
                  /\ cache_sz' <= m]_vars

\* C16 witness: AutoCache has built a swap variant of 4 frames of 3 bytes (a
\* budget of 12 to 15 bytes over a longer source).
C16_Witness ==
    /\ auto /\ kind = "swap"
    /\ page_sz = 3 /\ Cardinality(DOMAIN frames) = 4 /\ cache_sz = 12
    /\ srcLen > 12

\* C17 (frame count): when AutoCache::new builds the swap variant for a budget
\* M, its frame count N is the largest that fits: P * N <= M < P * (N + 1).
C17_FrameCountLargest ==
    [][kind = "none" => \A m \in 1..AutoMem : \A io \in AutoFailures(m) :
          (AutoCacheNew(m, io) /\ kind' = "swap")
          => LET n == Cardinality(DOMAIN frames')
             IN  page_sz' * n <= m /\ page_sz' * (n + 1) > m]_vars

\* C18 (ZeroCache): SwapCache::new returns ZeroCache exactly when page_size or
\* frame_count is 0, AutoCache::new exactly when mem_max is 0, and no
\* traverse_chunks, read or into_inner call returns it.
C18_ZeroCacheExactly ==
    [][/\ \A p \in 0..MaxPage, n \in 0..MaxFrames : \A io \in SwapFailures(p, n) :
             (kind = "none" /\ SwapCacheNew(p, n, io, FALSE))
             => (newErr' = "zero_cache" <=> (p = 0 \/ n = 0))
       /\ \A m \in 0..MaxMem : \A io \in AutoFailures(m) :
             (kind = "none" /\ AutoCacheNew(m, io))
             => (newErr' = "zero_cache" <=> m = 0)
       /\ kind # "none" => newErr' # "zero_cache"
       /\ \A t \in Threads : thr'[t].ret # "zero_cache"]_vars

\* C19 (size and shape of a SwapCache): SwapCache::new(source, P, N) builds a
\* cache with len() = L, cache_size() = P * N and N frames with buffers of
\* length P, and no call on the cache, failed or not, changes any of these.
C19_SwapShape ==
    [][kind' = "swap" =>
          /\ sz' = srcLen
          /\ cache_sz' = page_sz' * Cardinality(DOMAIN frames')
          /\ \A f \in DOMAIN frames' : Len(frames'[f].data) = page_sz'
          /\ \A p \in 1..MaxPage, n \in 1..MaxFrames, via \in BOOLEAN :
                (kind = "none" /\ SwapCacheNew(p, n, NoFail, via))
                => (page_sz' = p /\ cache_sz' = p * n /\ DOMAIN frames' = 0..(n - 1))
          /\ kind = "swap" =>
                /\ sz' = sz /\ cache_sz' = cache_sz /\ page_sz' = page_sz
                /\ DOMAIN frames' = DOMAIN frames]_vars

\* C19 witness: a SwapCache on which a traversal has failed with an I/O
\* error, a page has been loaded into a frame, and a traversal has returned
\* success after delivering chunks.
C19_Witness ==
    /\ kind = "swap" /\ ioFailed
    /\ \E f \in DOMAIN frames : frames[f].page # f
    /\ \E t \in Threads : Returned(t) /\ thr[t].ret = "ok" /\ thr[t].log # <<>>

\* The frames met from f along the next (prev) links, at most fuel of them.
RECURSIVE WalkNext(_, _)
WalkNext(f, fuel) ==
    IF f = NULL \/ fuel = 0 THEN <<>>
    ELSE <<f>> \o WalkNext(frames[f].next, fuel - 1)

RECURSIVE WalkPrev(_, _)
WalkPrev(f, fuel) ==
    IF f = NULL \/ fuel = 0 THEN <<>>
    ELSE <<f>> \o WalkPrev(frames[f].prev, fuel - 1)

\* C20 (LRU list): in every SwapCache state the walk from front along next
\* meets each of the N frames once and ends at back, the walk from back along
\* prev meets each frame once and ends at front, and front.prev and back.next
\* are NULL.
C20_ListWellFormed ==
    kind = "swap" =>
        LET n  == Cardinality(DOMAIN frames)
            wn == WalkNext(front, n + 1)
            wp == WalkPrev(back, n + 1)
        IN  /\ Len(wn) = n /\ SeqRange(wn) = DOMAIN frames /\ wn[n] = back
            /\ Len(wp) = n /\ SeqRange(wp) = DOMAIN frames /\ wp[n] = front
            /\ frames[front].prev = NULL
            /\ frames[back].next = NULL

\* C21 (promotion): with N >= 2 frames, after every page lookup that returns a
\* frame (hit or miss) that frame is back, its next link is NULL and, unless
\* it was back already, its prev link is the back of before; front changes
\* only when the frame was front.
C21_PromotedToBack ==
    [][\A t \in Threads :
          (kind = "swap" /\ Cardinality(DOMAIN frames) >= 2
              /\ thr[t].pc = "loop" /\ thr'[t].pc = "visit")
          => LET f == thr'[t].fidx
             IN  /\ back' = f
                 /\ frames'[f].next = NULL
                 /\ f # back => frames'[f].prev = back
                 /\ front' # front => f = front]_vars

\* C22 (page map): after construction, and after every traversal in which
\* no source operation failed, the page map of a SwapCache has exactly N
\* entries and is a bijection with the frames: map[p] = f exactly when
\* frames[f].page = p, and no two frames hold the same page.
C22_MapBijection ==
    (/\ kind = "swap"
     /\ \/ ~ioFailed
        \/ \E t \in Threads :
               thr[t].pc = "done" /\ thr[t].op # "none" /\ thr[t].ret # "io")
    => /\ Cardinality(DOMAIN map) = Cardinality(DOMAIN frames)
       /\ \A p \in DOMAIN map :
              map[p] \in DOMAIN frames /\ frames[map[p]].page = p
       /\ \A f \in DOMAIN frames :
              frames[f].page \in DOMAIN map /\ map[frames[f].page] = f
       /\ \A f, g \in DOMAIN frames : frames[f].page = frames[g].page => f = g

\* ceil(a / b) for a >= 0, b > 0.
CeilDiv(a, b) == (a + b - 1) \div b

\* The loop bodies a SwapCache traversal has entered so far: one per visitor
\* call made, and the one whose get_chunk has returned.
Iterations(t) == Len(thr[t].log) + (IF thr[t].pc = "visit" THEN 1 ELSE 0)

\* The values pos has had at the top of the loop body, in order.
Positions(t) ==
    [i \in 1..Iterations(t) |->
        IF i <= Len(thr[t].log) THEN thr[t].log[i].at ELSE thr[t].pos]

\* A SwapCache traversal of t over start < end in which no visitor call and
\* no source call has failed.
Succeeding(t) ==
    /\ kind = "swap"
    /\ thr[t].pc \in {"loop", "visit", "done"}
    /\ thr[t].start < thr[t].end
    /\ thr[t].vis \in {"none", "ok"}
    /\ thr[t].ret \in {"none", "ok"}

\* pos strictly increases, every pos after the first is a multiple of P, and
\* the loop body is entered at most ceil((end - start)/P) + 1 times.
LoopBounded ==
    \A t \in Threads :
        Succeeding(t) =>
            LET ps == Positions(t)
            IN  /\ \A i \in 1..(Len(ps) - 1) : ps[i] < ps[i + 1]
                /\ \A i \in 2..Len(ps) : ps[i] % page_sz = 0
                /\ thr[t].pc = "loop" /\ Len(ps) > 0
                       => thr[t].pos > ps[Len(ps)] /\ thr[t].pos % page_sz = 0
                /\ Iterations(t)
                       <= CeilDiv(thr[t].end - thr[t].start, page_sz) + 1

\* C23 (termination): a SwapCache traverse_chunks call over a clamped range
\* with start < end whose visitor and source calls all succeed has pos
\* strictly increasing, every pos after the first a multiple of P, and at most
\* ceil((end - start)/P) + 1 loop bodies; and every call that passed the
\* bounds tests returns.
C23_Terminates ==
    /\ []LoopBounded
    /\ (thr[1].pc \in {"lock", "loop", "visit"}) ~> (thr[1].pc = "done")

\* A traversal returned Ok after as many loop bodies as the bound allows, at
\* least three of them.
C23_Witness ==
    \E t \in Threads :
        /\ Succeeding(t)
        /\ thr[t].pc = "done" /\ thr[t].ret = "ok"
        /\ Iterations(t) >= 3
        /\ Iterations(t) = CeilDiv(thr[t].end - thr[t].start, page_sz) + 1

\* The number of bytes of page p that lie inside the source.
ValidLen(p) == Min(page_sz, Max(0, sz - p * page_sz))

\* Every resident page holds the source's bytes of that page in the first
\* ValidLen bytes of its frame.
Coherent ==
    (kind = "swap" /\ ~ioFailed)
    => \A p \in DOMAIN map :
           \A i \in 1..ValidLen(p) :
               frames[map[p]].data[i] = SourceByte(p * page_sz + i - 1)

\* A lookup of a resident page leaves the source position, the page map and
\* every frame's bytes and page as they were, and the chunk it returns starts
\* with the source's bytes from pos to the end of the page or of the source.
HitStep(t) ==
    LET p == thr[t].pos \div page_sz
        n == ValidLen(p) - (thr[t].pos - p * page_sz)
    IN  (kind = "swap" /\ ~ioFailed /\ thr[t].pc = "loop" /\ thr'[t].pc = "visit"
            /\ p \in DOMAIN map)
        => /\ srcPos' = srcPos
           /\ map' = map
           /\ thr'[t].fidx = map[p]
           /\ \A f \in DOMAIN frames :
                  frames'[f].data = frames[f].data /\ frames'[f].page = frames[f].page
           /\ \A i \in 1..n : thr'[t].chunk[i] = SourceByte(thr[t].pos + i - 1)

\* The same of the SwapCache built over a CacheReader, whose source is the
\* cache under the reader: its length is that cache's and its bytes the
\* source's.
OuterCoherent ==
    outer.built
    => \A p \in DOMAIN outer.map :
           \A i \in 1..Min(outer.page_sz, Max(0, outer.sz - p * outer.page_sz)) :
               outer.frames[outer.map[p]].data[i] = SourceByte(p * outer.page_sz + i - 1)

\* C24 (resident-page coherence): in every SwapCache state reached without a
\* failed source operation, for every map entry p -> f the first
\* k = min(P, max(0, L - p*P)) bytes of frames[f].data are S[p*P .. p*P + k);
\* a page hit returns those bytes and does no seek or read on the source.
C24_ResidentCoherent ==
    /\ []Coherent
    /\ []OuterCoherent
    /\ [][\A t \in Threads : HitStep(t)]_vars

\* The pages of the clamped range of t's traversal.
RangePages(t) ==
    (thr[t].start \div page_sz)..((thr[t].end - 1) \div page_sz)

\* C25 (traversal footprint): a SwapCache traversal of a non-empty clamped
\* range [start, end) requests from get_chunk only the pages floor(start/P) ..
\* floor((end-1)/P), never a page starting at or beyond end or L; and when all
\* pages of the range are resident a lookup leaves the page map, the frames'
\* bytes and pages and the source position unchanged.
C25_Footprint ==
    [][\A t \in Threads :
          (kind = "swap" /\ thr[t].pc = "loop" /\ thr'[t].pc # "loop"
              /\ thr[t].start < thr[t].end)
          => LET p == thr[t].pos \div page_sz
             IN  /\ p \in RangePages(t)
                 /\ p * page_sz < thr[t].end
                 /\ p * page_sz < sz
                 /\ RangePages(t) \subseteq DOMAIN map
                        => /\ map' = map
                           /\ srcPos' = srcPos
                           /\ \A f \in DOMAIN frames :
                                  /\ frames'[f].data = frames[f].data
                                  /\ frames'[f].page = frames[f].page]_vars
====
